---- MODULE Spec2Model ----
(***************************************************************************)
(* Model of the clinical-note retrieval and similarity-aggregation         *)
(* workflow of 08_streamlit_clinical_intelligence_app.py: the cached       *)
(* lookups search_clinical_notes and get_patient_details, the summary      *)
(* function generate_ai_summary, and the button handlers of the Clinical   *)
(* Search and Similar Patients pages.                                      *)
(*                                                                         *)
(* A pandas DataFrame is a record [cols, rows]: the set of column names    *)
(* and the sequence of rows.  pd.DataFrame() and pd.DataFrame([]) have no  *)
(* columns; a frame filtered down to zero rows keeps its columns.          *)
(* A note text is represented by the rank of the note in the remote index  *)
(* (every hit carries a different text).                                   *)
(***************************************************************************)
EXTENDS Integers, Sequences, FiniteSets, TLC

\* ---------------------------------------------------------------- bounds
MaxPid == 3          \* patients 1..MaxPid have notes in the remote index
MaxHits == 3         \* length of the remote relevance ranking
MaxSimilar == 2      \* largest value of the "Max similar patients" slider
MaxTicks == 2        \* the clock runs up to MaxTicks * TTL seconds
MaxCalls == 2        \* direct calls of the cached lookups in one session
MaxResults == 2      \* largest value of the "Number of results" slider
MaxLen == 2          \* length of the strings spelled out in characters

\* ------------------------------------------------------------- constants
TTL == 3600          \* st.cache_data(ttl=3600)
TopN == 3            \* search_results.head(3)
OverFetch == 2       \* max_similar * 2

NULL == "NULL"
HitCols == {"PATIENT_ID", "NOTE_TYPE", "NOTE_TEXT"}
ProfileCols == {"PATIENT_ID", "MRN"}

Patients == 1..MaxPid            \* patients with a profile and notes
NoNotePatient == MaxPid + 1      \* has a profile, no clinical note
UnknownPatient == MaxPid + 2     \* not in the PATIENTS table
KnownPatients == Patients \cup {NoNotePatient}

Min(a, b) == IF a <= b THEN a ELSE b

\* ------------------------------------------------------------ DataFrames
EmptyDataFrame == [cols |-> {}, rows |-> <<>>]

\* pd.DataFrame(list_of_dicts)
DataFrameOf(list, columns) ==
    IF list = <<>> THEN EmptyDataFrame ELSE [cols |-> columns, rows |-> list]

\* df.empty
IsEmpty(df) == df.rows = <<>> \/ df.cols = {}

\* df.head(n)
HeadRows(rows, n) == SubSeq(rows, 1, Min(n, Len(rows)))

\* a text value: the note it comes from and how many characters are kept
Text(i, n) == [id |-> i, len |-> n]

\* the text uncut
Prefix_NoCut(text, n) == text

\* text[:n]
Prefix(text, n) == [id |-> text.id, len |-> Min(text.len, n)]

\* the empty string
NoText == Text(0, 0)

\* ------------------------------------------------------------ the remote
VARIABLES
    hits,             \* remote index: the relevance-ordered hit list
    now,              \* wall clock, seconds
    searchCache,      \* st.cache_data store of search_clinical_notes
    detailCache,      \* st.cache_data store of get_patient_details
    patient_search,   \* text input of the Similar Patients page
    max_similar,      \* slider of the Similar Patients page
    search_query,     \* text input of the Clinical Search page
    note_type_filter, \* select box of the Clinical Search page
    num_results,      \* slider of the Clinical Search page
    show_details,     \* row indexes idx with st.session_state show_details_idx
    out,              \* what the last script run rendered
    calls,            \* remote statements issued by the last script run
    lastCall,         \* the last direct call of a cached lookup
    lastRun,          \* per lookup and argument tuple: when its body last
                      \* returned a value (history of the direct calls)
    ncalls,           \* number of direct calls so far
    sql               \* the last statement spelled out in characters

page1 == <<search_query, note_type_filter, num_results, show_details>>
page2 == <<patient_search, max_similar>>
history == <<lastCall, lastRun, ncalls>>

vars == <<hits, now, searchCache, detailCache, page1, page2, out, calls,
          history, sql>>

\* a hit as the search service returns it; the text of the hit of rank i
\* (only the top hit of a ranking may lack its note type)
HitAt(id, i, untyped) ==
    [PATIENT_ID |-> id,
     NOTE_TYPE |-> IF i = untyped THEN NULL ELSE "Progress Note",
     NOTE_TEXT |-> Text(i, 250 + 100 * i)]
Rankings ==
    UNION { { [i \in 1..n |-> HitAt(c[i], i, u)] :
                c \in [1..n -> Patients], u \in 0..Min(n, 1) }
            : n \in 0..MaxHits }

\* the hit list SEARCH_PREVIEW answers for a request
RemoteHits(ranking, filter, limit) ==
    LET Match(r) == r.NOTE_TYPE = filter
    IN HeadRows(IF filter = NULL THEN ranking ELSE SelectSeq(ranking, Match),
                limit)

\* what session.sql(sql).collect() can answer to the search statement
SearchResponses ==
    {"raise", "norow", "null", "emptystr", "badjson", "scalar", "array"}

\* one answer of each sort: a failure, an empty frame, a hit list
CacheResponses == {"raise", "norow", "array"}

\* what any other statement can do
SqlResponses == {"raise", "ok"}

\* the statement answers a row for an id that is in no table
Profile_AlwaysRow(p) ==
    [cols |-> ProfileCols, rows |-> <<[PATIENT_ID |-> p, MRN |-> p]>>]

\* the PATIENTS / ENCOUNTERS aggregate row of a patient
Profile(p) ==
    IF p \in KnownPatients
    THEN [cols |-> ProfileCols, rows |-> <<[PATIENT_ID |-> p, MRN |-> p]>>]
    ELSE [cols |-> ProfileCols, rows |-> <<>>]

\* the most recent note of a patient (LIMIT 1), <<>> when there is none
LatestNote(p) ==
    IF p \in Patients THEN <<[NOTE_TEXT |-> Text(100 + p, 400 + 100 * p)]>>
    ELSE <<>>

\* ------------------------------------------------------- cached lookups
\* an entry still used at the age of exactly ttl
Valid_Inclusive(cache, key, t) ==
    key \in DOMAIN cache /\ t - cache[key].stamp <= TTL

\* an entry is usable while its age is below the ttl
Valid(cache, key, t) ==
    key \in DOMAIN cache /\ t - cache[key].stamp < TTL

Store(cache, key, value, t) ==
    [k \in DOMAIN cache \cup {key} |->
        IF k = key THEN [value |-> value, stamp |-> t] ELSE cache[k]]

\* the argument tuple st.cache_data hashes
SearchKey(query, filter, limit) == <<query, filter, limit>>

\* the body without the check of result[0]['RESULTS']: json.loads is
\* handed the null or empty field and raises
SearchBody_NoNullGuard(ranking, filter, limit, resp) ==
    LET f == IF filter # NULL /\ filter # "All" THEN filter ELSE NULL
    IN CASE resp = "norow" -> [raised |-> FALSE, value |-> EmptyDataFrame]
         [] resp = "array" -> [raised |-> FALSE,
                               value |-> DataFrameOf(
                                   RemoteHits(ranking, f, limit), HitCols)]
         [] OTHER -> [raised |-> TRUE, value |-> EmptyDataFrame]

\* body of search_clinical_notes for one answer of the remote
SearchBody(ranking, filter, limit, resp) ==
    LET f == IF filter # NULL /\ filter # "All" THEN filter ELSE NULL
    IN CASE resp = "raise"    -> [raised |-> TRUE, value |-> EmptyDataFrame]
         [] resp = "norow"    -> [raised |-> FALSE, value |-> EmptyDataFrame]
         [] resp = "null"     -> [raised |-> FALSE, value |-> EmptyDataFrame]
         [] resp = "emptystr" -> [raised |-> FALSE, value |-> EmptyDataFrame]
         [] resp = "badjson"  -> [raised |-> TRUE, value |-> EmptyDataFrame]
         [] resp = "scalar"   -> [raised |-> TRUE, value |-> EmptyDataFrame]
         [] OTHER -> [raised |-> FALSE,
                      value |-> DataFrameOf(RemoteHits(ranking, f, limit),
                                            HitCols)]

\* a failed run of the body leaves an (empty) entry behind
search_clinical_notes_StoreOnFail(cache, t, ranking, query, filter, limit, resp) ==
    LET key == SearchKey(query, filter, limit)
        body == SearchBody(ranking, filter, limit, resp)
    IN IF Valid(cache, key, t)
       THEN [raised |-> FALSE, value |-> cache[key].value, cache |-> cache,
             remote |-> 0]
       ELSE [raised |-> body.raised, value |-> body.value,
             cache |-> Store(cache, key, body.value, t), remote |-> 1]

\* search_clinical_notes behind st.cache_data
search_clinical_notes(cache, t, ranking, query, filter, limit, resp) ==
    LET key == SearchKey(query, filter, limit)
        body == SearchBody(ranking, filter, limit, resp)
    IN IF Valid(cache, key, t)
       THEN [raised |-> FALSE, value |-> cache[key].value, cache |-> cache,
             remote |-> 0]
       ELSE IF body.raised
       THEN [raised |-> TRUE, value |-> EmptyDataFrame, cache |-> cache,
             remote |-> 1]
       ELSE [raised |-> FALSE, value |-> body.value,
             cache |-> Store(cache, key, body.value, t), remote |-> 1]

\* get_patient_details behind st.cache_data
get_patient_details(cache, t, patient_id, resp) ==
    IF Valid(cache, patient_id, t)
    THEN [raised |-> FALSE, value |-> cache[patient_id].value,
          cache |-> cache, remote |-> 0]
    ELSE IF resp = "raise"
    THEN [raised |-> TRUE, value |-> EmptyDataFrame, cache |-> cache,
          remote |-> 1]
    ELSE [raised |-> FALSE, value |-> Profile(patient_id),
          cache |-> Store(cache, patient_id, Profile(patient_id), t),
          remote |-> 1]

\* ------------------------------------------------- Similar Patients page
\* values the text input can hold: "", a digit string, a string holding
\* "MRN" (upper case), one holding it in another case, anything else
PatientInputs ==
    {[kind |-> "empty", n |-> 0], [kind |-> "other", n |-> 0]}
    \cup [kind : {"digits"}, n : 0..UnknownPatient]
    \cup {[kind |-> "MRN", n |-> 1], [kind |-> "MRN", n |-> UnknownPatient],
          [kind |-> "mrn", n |-> 1]}

SimilarRange == 1..MaxSimilar

NoCalls == [mrn |-> 0, details |-> 0, note |-> 0, search |-> 0, complete |-> 0]

\* no prompt built
NoPrompt == [query |-> NoText, notes |-> <<>>]

\* no call of search_clinical_notes made: query, note_type_filter, limit
NoArgs == <<NoText, NULL, 0>>

Idle ==
    [page |-> "none", status |-> "idle", exclude |-> 0, searched |-> FALSE,
     raw |-> <<>>, heading |-> 0, similar |-> <<>>, shown |-> <<>>,
     summary |-> NULL, error |-> NULL, sresp |-> NULL, cresp |-> NULL,
     prompt |-> NoPrompt, sargs |-> NoArgs, clicked |-> -1]

\* the statement looking a patient up by MRN: PATIENT_ID or 0 for no row
MrnLookup(ps) ==
    IF ps.kind = "MRN" /\ ps.n \in KnownPatients THEN ps.n ELSE 0

\* the filter left out: every row is kept
FilterOut_KeepAll(rows, patient_id) == rows

\* similar_results[similar_results['PATIENT_ID'] != patient_id]
FilterOut(rows, patient_id) ==
    LET Other(r) == r.PATIENT_ID # patient_id
    IN SelectSeq(rows, Other)

\* ascending sequence of a finite set of integers
RECURSIVE SortAsc(_)
SortAsc(S) ==
    IF S = {} THEN <<>>
    ELSE LET m == CHOOSE x \in S : \A y \in S : x <= y
         IN <<m>> \o SortAsc(S \ {m})

\* the ids of the rows in order of first occurrence
RECURSIVE FirstSeen(_)
FirstSeen(rows) ==
    IF rows = <<>> THEN <<>>
    ELSE LET rest == FirstSeen(SubSeq(rows, 1, Len(rows) - 1))
             id == rows[Len(rows)].PATIENT_ID
         IN IF \E i \in DOMAIN rest : rest[i] = id THEN rest
            ELSE Append(rest, id)

\* a null cell (of the hit columns only NOTE_TYPE holds nulls here)
IsNull(col, v) == col = "NOTE_TYPE" /\ v = NULL

\* GroupBy.first() of one column: the first non-null value of the group
FirstNonNull(rows, id, col) ==
    LET idx == {i \in DOMAIN rows :
                    rows[i].PATIENT_ID = id /\ ~IsNull(col, rows[i][col])}
    IN IF idx = {} THEN NULL
       ELSE rows[CHOOSE i \in idx : \A j \in idx : i <= j][col]

\* the order in which groupby lays out the group keys (sort=True)
GroupKeys(rows) == SortAsc({rows[i].PATIENT_ID : i \in DOMAIN rows})

\* the grouping left out: one output row per input row
GroupByFirst_NoDedup(rows) == rows

\* similar_results.groupby('PATIENT_ID').first().reset_index()
GroupByFirst(rows) ==
    LET keys == GroupKeys(rows)
    IN [k \in DOMAIN keys |->
          [PATIENT_ID |-> keys[k],
           NOTE_TYPE |-> FirstNonNull(rows, keys[k], "NOTE_TYPE"),
           NOTE_TEXT |-> FirstNonNull(rows, keys[k], "NOTE_TEXT")]]

\* the loop over similar_patients: rows rendered, details cache and calls,
\* when the details statement of row failAt (0: none) fails
RenderSimilar(rows, dc, t, failAt) ==
    LET Miss(i) == ~Valid(dc, rows[i].PATIENT_ID, t)
        raised == failAt \in DOMAIN rows /\ Miss(failAt)
        done == IF raised THEN failAt - 1 ELSE Len(rows)
        fetched == {i \in 1..done : Miss(i)}
        ids == {rows[i].PATIENT_ID : i \in fetched}
    IN [raised |-> raised,
        shown |-> SubSeq(rows, 1, done),
        cache |-> [k \in DOMAIN dc \cup ids |->
                     IF k \in ids THEN [value |-> Profile(k), stamp |-> t]
                     ELSE dc[k]],
        remote |-> Cardinality(fetched) + (IF raised THEN 1 ELSE 0)]

\* the "Find Similar Patients" button block for one click; env holds the
\* answers of the remote statements the run may issue
FindSimilar(ps, m, sc, dc, t, ranking, env) ==
    LET base == [Idle EXCEPT !.page = "similar"]
        Done(o, c, s2, d2) == [out |-> o, calls |-> c, sc |-> s2, dc |-> d2]
        lookup == ps.kind \in {"MRN", "mrn"}
        c1 == [NoCalls EXCEPT !.mrn = IF lookup THEN 1 ELSE 0]
        patient_id == IF ps.kind = "digits" THEN ps.n
                      ELSE IF lookup THEN MrnLookup(ps) ELSE 0
        det == get_patient_details(dc, t, patient_id, env.det)
        c2 == [c1 EXCEPT !.details = det.remote]
        o2 == [base EXCEPT !.exclude = patient_id]
        c3 == [c2 EXCEPT !.note = 1]
        latest_note == LatestNote(patient_id)
        query == Prefix(latest_note[1].NOTE_TEXT, 500)
        sr == search_clinical_notes(sc, t, ranking, query, NULL,
                                    m * OverFetch, env.search)
        c4 == [c3 EXCEPT !.search = sr.remote]
        o3 == [o2 EXCEPT !.sargs = <<query, NULL, m * OverFetch>>]
        o4 == [o3 EXCEPT !.searched = TRUE, !.raw = sr.value.rows]
        filtered == FilterOut(sr.value.rows, patient_id)
        similar_patients == HeadRows(GroupByFirst(filtered), m)
        o5 == [o4 EXCEPT !.heading = Min(m, Len(filtered)),
                         !.similar = similar_patients]
        loop == RenderSimilar(similar_patients, det.cache, t, env.failAt)
        c5 == [c4 EXCEPT !.details = det.remote + loop.remote]
    IN IF ps.kind = "empty"
       THEN Done([base EXCEPT !.status = "enter_id"], NoCalls, sc, dc)
       ELSE IF lookup /\ env.mrn = "raise"
       THEN Done([base EXCEPT !.status = "exception", !.error = "mrn"],
                 c1, sc, dc)
       ELSE IF patient_id = 0
       THEN Done([base EXCEPT !.status = "invalid_id"], c1, sc, dc)
       ELSE IF det.raised
       THEN Done([o2 EXCEPT !.status = "exception", !.error = "details"],
                 c2, sc, det.cache)
       ELSE IF IsEmpty(det.value)
       THEN Done([o2 EXCEPT !.status = "not_found"], c2, sc, det.cache)
       ELSE IF env.note = "raise"
       THEN Done([o2 EXCEPT !.status = "exception", !.error = "note"],
                 c3, sc, det.cache)
       ELSE IF latest_note = <<>>
       THEN Done([o2 EXCEPT !.status = "no_notes"], c3, sc, det.cache)
       ELSE IF sr.raised
       THEN Done([o3 EXCEPT !.status = "exception", !.error = "search"],
                 c4, sr.cache, det.cache)
       ELSE IF "PATIENT_ID" \notin sr.value.cols
       THEN Done([o4 EXCEPT !.status = "exception", !.error = "KeyError"],
                 c4, sr.cache, det.cache)
       ELSE IF filtered = <<>>
       THEN Done([o4 EXCEPT !.status = "no_similar"], c4, sr.cache, det.cache)
       ELSE Done([o5 EXCEPT !.status = IF loop.raised THEN "exception"
                                       ELSE "results",
                            !.error = IF loop.raised THEN "details" ELSE NULL,
                            !.shown = loop.shown],
                 c5, sr.cache, loop.cache)

\* the answers of the remote during one run.  A run ends at the first
\* statement that fails, so one failing statement per run covers them all.
\* This page does not tell the ways the search fails, or comes back empty,
\* apart: one answer of each sort is drawn.
Faults(e) ==
    (IF e.mrn = "raise" THEN 1 ELSE 0) + (IF e.det = "raise" THEN 1 ELSE 0)
    + (IF e.note = "raise" THEN 1 ELSE 0)
    + (IF e.search # "array" THEN 1 ELSE 0) + (IF e.failAt # 0 THEN 1 ELSE 0)

SimilarEnvs ==
    {e \in [mrn : SqlResponses, det : SqlResponses, note : SqlResponses,
            search : CacheResponses, failAt : 0..MaxSimilar] :
        Faults(e) <= 1}

\* one click on "Find Similar Patients"
ClickFindSimilar ==
    \E env \in SimilarEnvs :
        \E run \in {FindSimilar(patient_search, max_similar, searchCache,
                               detailCache, now, hits, env)} :
           /\ out' = run.out
           /\ calls' = run.calls
           /\ searchCache' = run.sc
           /\ detailCache' = run.dc
           /\ UNCHANGED <<hits, now, page1, page2, history, sql>>

EmptyCache == <<>>
NoSql == [kind |-> "none", text |-> <<>>, open |-> 0, tail |-> 0,
          payload |-> <<>>, query |-> <<>>, filter |-> <<>>]
NoCall == [fn |-> NULL, at |-> 0, ran |-> FALSE, prev |-> -1]
NoRuns == [search |-> <<>>, details |-> <<>>]

InitSimilar ==
    /\ hits \in Rankings
    /\ now = 0
    /\ searchCache = EmptyCache
    /\ detailCache = EmptyCache
    /\ patient_search \in PatientInputs
    /\ max_similar \in SimilarRange
    /\ search_query = NoText
    /\ note_type_filter = "All"
    /\ num_results = 1
    /\ show_details = {}
    /\ out = Idle
    /\ calls = NoCalls
    /\ lastCall = NoCall
    /\ lastRun = NoRuns
    /\ ncalls = 0
    /\ sql = NoSql

NextSimilar == ClickFindSimilar

SpecSimilar == InitSimilar /\ [][NextSimilar]_vars

\* ------------------------------------------------ similar-patient claims
\* the run reached the aggregation: the search returned a frame
Aggregating == out.page = "similar" /\ out.searched

\* the run finished the filter / group / truncate steps
Aggregated == Aggregating /\ out.error \in {NULL, "details"}

OtherIds(rows, id) == {rows[i].PATIENT_ID : i \in DOMAIN rows} \ {id}

\* C1: no row of the similar-patient output carries the id of the index
\* patient, whatever the search returned.
C1_NoIndexPatient ==
    /\ \A i \in DOMAIN out.similar : out.similar[i].PATIENT_ID # out.exclude
    /\ \A i \in DOMAIN out.shown : out.shown[i].PATIENT_ID # out.exclude

C1_Witness ==
    /\ out.status = "results"
    /\ out.shown # <<>>
    /\ \E i \in DOMAIN out.raw : out.raw[i].PATIENT_ID = out.exclude

\* C2: the similar-patient output holds at most one row per patient id and
\* at most max_similar rows.
C2_DistinctAndBounded ==
    /\ \A i, j \in DOMAIN out.similar :
          out.similar[i].PATIENT_ID = out.similar[j].PATIENT_ID => i = j
    /\ Len(out.similar) <= max_similar

C2_Witness ==
    /\ out.status = "results"
    /\ Len(out.similar) = max_similar
    /\ Len(FilterOut(out.raw, out.exclude)) > max_similar
    /\ \E i, j \in DOMAIN out.raw :
          /\ i # j
          /\ out.raw[i].PATIENT_ID = out.raw[j].PATIENT_ID
          /\ out.raw[i].PATIENT_ID # out.exclude

\* the first row of a sequence that belongs to a patient
FirstRowOf(rows, id) ==
    rows[CHOOSE i \in DOMAIN rows :
            /\ rows[i].PATIENT_ID = id
            /\ \A j \in 1..(i - 1) : rows[j].PATIENT_ID # id]

\* stable deduplication by patient id, first-seen order
StableDedup(rows) ==
    LET ids == FirstSeen(rows)
    IN [k \in DOMAIN ids |-> FirstRowOf(rows, ids[k])]

\* C3: the grouped output is the stable deduplication of the filtered
\* search results: for each patient the first row the search returned, in
\* order of first occurrence, truncated to max_similar.
C3_StableDedup ==
    Aggregated =>
        out.similar = HeadRows(StableDedup(FilterOut(out.raw, out.exclude)),
                               max_similar)

\* C4: a search result holding no row of another patient (an empty result
\* included) ends in the "No similar patients found" notice, without error.
C4_EmptyIsNotice ==
    (Aggregating /\ FilterOut(out.raw, out.exclude) = <<>>) =>
        (out.status = "no_similar" /\ out.error = NULL)

\* C5: the output holds exactly min(D, max_similar) rows, D the number of
\* distinct patient ids other than the index patient among the rows the
\* search returned, and the aggregation raises no error.
C5_ExactCount ==
    Aggregating =>
        /\ Aggregated
        /\ Len(out.similar) =
              Min(Cardinality(OtherIds(out.raw, out.exclude)), max_similar)

\* --------------------------------------------- the cache over time
\* argument tuples of the direct calls: a base tuple and tuples that differ
\* from it in the query text, in the filter value, in the limit
Query(i) == Text(200 + i, 10 * i)
SearchArgs ==
    {<<Query(1), NULL, 1>>, <<Query(2), NULL, 1>>,
     <<Query(1), "Progress Note", 1>>, <<Query(1), NULL, 2>>}
DetailArgs == {1, UnknownPatient}

\* the remote index of the cache runs: an untyped hit, then a typed one
CacheRanking == <<HitAt(1, 1, 1), HitAt(2, 2, 0)>>

PrevRun(runs, key) == IF key \in DOMAIN runs THEN runs[key] ELSE -1

Ran(runs, key, r, t) ==
    IF r.remote = 1 /\ ~r.raised
    THEN [k \in DOMAIN runs \cup {key} |-> IF k = key THEN t ELSE runs[k]]
    ELSE runs

\* a direct call search_clinical_notes(query, note_type_filter, limit)
CallSearch ==
    /\ ncalls < MaxCalls
    /\ \E a \in SearchArgs, resp \in CacheResponses :
         LET r == search_clinical_notes(searchCache, now, hits,
                                        a[1], a[2], a[3], resp)
             key == <<a[1], a[2], a[3]>>
         IN /\ searchCache' = r.cache
            /\ calls' = [NoCalls EXCEPT !.search = r.remote]
            /\ lastCall' = [fn |-> "search", at |-> now, ran |-> r.remote = 1,
                            prev |-> PrevRun(lastRun.search, key)]
            /\ lastRun' = [lastRun EXCEPT
                              !.search = Ran(lastRun.search, key, r, now)]
    /\ ncalls' = ncalls + 1
    /\ UNCHANGED <<hits, now, detailCache, page1, page2, out, sql>>

\* a direct call get_patient_details(patient_id)
CallDetails ==
    /\ ncalls < MaxCalls
    /\ \E p \in DetailArgs, resp \in SqlResponses :
         LET r == get_patient_details(detailCache, now, p, resp)
         IN /\ detailCache' = r.cache
            /\ calls' = [NoCalls EXCEPT !.details = r.remote]
            /\ lastCall' = [fn |-> "details", at |-> now, ran |-> r.remote = 1,
                            prev |-> PrevRun(lastRun.details, p)]
            /\ lastRun' = [lastRun EXCEPT
                              !.details = Ran(lastRun.details, p, r, now)]
    /\ ncalls' = ncalls + 1
    /\ UNCHANGED <<hits, now, searchCache, page1, page2, out, sql>>

\* time passes
Tick ==
    /\ \E d \in {TTL - 1, TTL} :
         /\ now + d <= MaxTicks * TTL
         /\ now' = now + d
    /\ UNCHANGED <<hits, searchCache, detailCache, page1, page2, out, calls,
                   history, sql>>

InitCache ==
    /\ hits = CacheRanking
    /\ now = 0
    /\ searchCache = EmptyCache
    /\ detailCache = EmptyCache
    /\ patient_search = [kind |-> "empty", n |-> 0]
    /\ max_similar = 1
    /\ search_query = NoText
    /\ note_type_filter = "All"
    /\ num_results = 1
    /\ show_details = {}
    /\ out = Idle
    /\ calls = NoCalls
    /\ lastCall = NoCall
    /\ lastRun = NoRuns
    /\ ncalls = 0
    /\ sql = NoSql

NextCache == CallSearch \/ CallDetails \/ Tick

SpecCache == InitCache /\ [][NextCache]_vars

\* C6: a call of a cached lookup runs the remote statement exactly when no
\* earlier call with the same argument tuple returned a value less than TTL
\* seconds ago: identical calls inside the window run it once, a call at or
\* after expiry runs it again, calls with other arguments never share.
C6_RunsIffNoValidEntry ==
    lastCall.fn # NULL =>
        (lastCall.ran <=>
            (lastCall.prev < 0 \/ lastCall.at - lastCall.prev >= TTL))

C6_Witness ==
    /\ lastCall.fn = "search"
    /\ ~lastCall.ran
    /\ lastCall.at - lastCall.prev = TTL - 1
    /\ Cardinality(DOMAIN searchCache) = 1

\* ------------------------------------------------------ the summary
NoResultsMsg == "No results found for your query."
UnableMsg == "Unable to generate summary."
ModelText == "<text returned by CORTEX.COMPLETE>"

\* what collect() can answer to the COMPLETE statement
CompletionResponses == {"raise", "norow", "text"}

\* the prompt with an excerpt of every result
BuildPrompt_AllRows(query, df) ==
    [query |-> query,
     notes |-> [i \in DOMAIN df.rows |->
                  [label |-> i, text |-> Prefix(df.rows[i].NOTE_TEXT, 500)]]]

\* the prompt: the query and the labelled excerpts of the top results
BuildPrompt(query, df) ==
    LET top_results == HeadRows(df.rows, TopN)
    IN [query |-> query,
        notes |-> [i \in DOMAIN top_results |->
                     [label |-> i,
                      text |-> Prefix(top_results[i].NOTE_TEXT, 500)]]]

\* generate_ai_summary past its empty check: prompt, statement, answer
SummaryBody(query, df, resp) ==
    [raised |-> resp = "raise",
     value |-> CASE resp = "text" -> ModelText
                 [] resp = "norow" -> UnableMsg
                 [] OTHER -> NULL,
     remote |-> 1,
     prompt |-> BuildPrompt(query, df)]

\* the function without its empty check
generate_ai_summary_Unguarded(query, df, resp) == SummaryBody(query, df, resp)

generate_ai_summary(query, df, resp) ==
    IF IsEmpty(df)
    THEN [raised |-> FALSE, value |-> NoResultsMsg, remote |-> 0,
          prompt |-> NoPrompt]
    ELSE SummaryBody(query, df, resp)

\* result sets the function can be handed: the frames a search can return
ResultSets(ranking) ==
    {EmptyDataFrame, [cols |-> HitCols, rows |-> <<>>]}
    \cup {DataFrameOf(HeadRows(ranking, n), HitCols) : n \in 1..Len(ranking)}

\* a direct call generate_ai_summary(search_query, df)
CallSummary ==
    /\ \E df \in ResultSets(hits), resp \in CompletionResponses :
         LET r == generate_ai_summary(search_query, df, resp)
         IN /\ out' = [Idle EXCEPT
                         !.page = "summary",
                         !.status = IF r.raised THEN "exception" ELSE "return",
                         !.error = IF r.raised THEN "complete" ELSE NULL,
                         !.raw = df.rows,
                         !.summary = r.value,
                         !.cresp = IF r.remote = 1 THEN resp ELSE NULL,
                         !.prompt = r.prompt]
            /\ calls' = [NoCalls EXCEPT !.complete = r.remote]
    /\ UNCHANGED <<hits, now, searchCache, detailCache, page1, page2, history,
                   sql>>

\* a ranking with one hit more than the summary reads
LongRanking == [i \in 1..(TopN + 1) |-> HitAt(1, i, 0)]

InitSummary ==
    /\ hits \in Rankings \cup {LongRanking}
    /\ now = 0
    /\ searchCache = EmptyCache
    /\ detailCache = EmptyCache
    /\ patient_search = [kind |-> "empty", n |-> 0]
    /\ max_similar = 1
    /\ search_query \in {NoText, Query(1)}
    /\ note_type_filter = "All"
    /\ num_results = 1
    /\ show_details = {}
    /\ out = Idle
    /\ calls = NoCalls
    /\ lastCall = NoCall
    /\ lastRun = NoRuns
    /\ ncalls = 0
    /\ sql = NoSql

NextSummary == CallSummary

SpecSummary == InitSummary /\ [][NextSummary]_vars

\* C7: on an empty result set generate_ai_summary returns the fixed
\* "no results" string and issues no completion statement.
C7_EmptyShortCircuit ==
    (out.page = "summary" /\ out.raw = <<>>) =>
        /\ out.status = "return"
        /\ out.summary = NoResultsMsg
        /\ calls.complete = 0

C7_Witness ==
    /\ out.page = "summary"
    /\ out.raw = <<>>
    /\ out.summary = NoResultsMsg
    /\ calls.complete = 0

\* C8: on a non-empty result set generate_ai_summary never propagates an
\* error of the completion statement: when the statement fails or returns
\* no row the function returns the fixed "unable" string.
C8_NeverPropagates ==
    (out.page = "summary" /\ out.raw # <<>>) =>
        /\ out.status = "return"
        /\ out.cresp \in {"raise", "norow"} => out.summary = UnableMsg

\* ------------------------------------------------ Clinical Search page
FilterChoices == {"All", "Progress Note"}
ResultsRange == 1..MaxResults

\* the loop over the result rows (tab "Search Results"): each row is
\* drawn, then its patient details when its show_details flag is set;
\* failAt (0: none) is the row whose details statement fails
RECURSIVE RenderResults(_, _, _, _, _, _)
RenderResults(rows, i, sd, dc, t, failAt) ==
    IF i > Len(rows)
    THEN [raised |-> FALSE, shown |-> Len(rows), cache |-> dc, remote |-> 0]
    ELSE IF (i - 1) \notin sd
    THEN RenderResults(rows, i + 1, sd, dc, t, failAt)
    ELSE LET d == get_patient_details(dc, t, rows[i].PATIENT_ID,
                                      IF i = failAt THEN "raise" ELSE "ok")
             rest == RenderResults(rows, i + 1, sd, d.cache, t, failAt)
         IN IF d.raised
            THEN [raised |-> TRUE, shown |-> i, cache |-> dc, remote |-> 1]
            ELSE [rest EXCEPT !.remote = @ + d.remote]

\* the "Search" button block for one click
Search(q, f, n, sd, sc, dc, t, ranking, env) ==
    LET base == [Idle EXCEPT !.page = "search"]
        Done(o, c, s2, d2) == [out |-> o, calls |-> c, sc |-> s2, dc |-> d2]
        results == search_clinical_notes(sc, t, ranking, q,
                                         IF f # "All" THEN f ELSE NULL,
                                         n, env.search)
        c1 == [NoCalls EXCEPT !.search = results.remote]
        o1 == [base EXCEPT
                 !.sresp = IF results.remote = 1 THEN env.search ELSE NULL]
        o2 == [o1 EXCEPT !.searched = TRUE, !.raw = results.value.rows]
        summary == generate_ai_summary(q, results.value, env.complete)
        c2 == [c1 EXCEPT !.complete = summary.remote]
        o3 == [o2 EXCEPT !.cresp = env.complete]
        loop == RenderResults(results.value.rows, 1, sd, dc, t, env.failAt)
        c3 == [c2 EXCEPT !.details = loop.remote]
    IN IF q = NoText
       THEN Done([base EXCEPT !.status = "enter_query"], NoCalls, sc, dc)
       ELSE IF results.raised
       THEN Done([o1 EXCEPT !.status = "exception", !.error = "search"],
                 c1, results.cache, dc)
       ELSE IF IsEmpty(results.value)
       THEN Done([o2 EXCEPT !.status = "no_results"], c1, results.cache, dc)
       ELSE IF summary.raised
       THEN Done([o3 EXCEPT !.status = "exception", !.error = "complete"],
                 c2, results.cache, dc)
       ELSE Done([o3 EXCEPT
                    !.status = IF loop.raised THEN "exception" ELSE "results",
                    !.error = IF loop.raised THEN "details" ELSE NULL,
                    !.summary = summary.value,
                    !.shown = SubSeq(results.value.rows, 1, loop.shown)],
                 c3, results.cache, loop.cache)

SearchFaults(e) ==
    (IF e.search # "array" THEN 1 ELSE 0)
    + (IF e.complete = "raise" THEN 1 ELSE 0) + (IF e.failAt # 0 THEN 1 ELSE 0)

SearchEnvs ==
    {e \in [search : SearchResponses, complete : CompletionResponses,
            failAt : 0..MaxResults] : SearchFaults(e) <= 1}

\* one click on "Search"
ClickSearch ==
    \E env \in SearchEnvs :
        \E run \in {Search(search_query, note_type_filter, num_results,
                          show_details, searchCache, detailCache, now, hits,
                          env)} :
           /\ out' = run.out
           /\ calls' = run.calls
           /\ searchCache' = run.sc
           /\ detailCache' = run.dc
           /\ UNCHANGED <<hits, now, page1, page2, history, sql>>

\* one click on the "View Details" button of a drawn row (index idx): the
\* script reruns with only that button pressed, so the "Search" button
\* reads False, its block is skipped, and the button's own statement,
\* which lies inside that block, is not reached
ClickViewDetails ==
    /\ out.page = "search"
    /\ out.status = "results"
    /\ \E idx \in 0..(Len(out.shown) - 1) :
         out' = [Idle EXCEPT !.page = "search", !.status = "blank",
                             !.clicked = idx]
    /\ calls' = NoCalls
    /\ UNCHANGED <<hits, now, searchCache, detailCache, page1, page2,
                   history, sql>>

InitSearch ==
    /\ hits \in Rankings
    /\ now = 0
    /\ searchCache = EmptyCache
    /\ detailCache = EmptyCache
    /\ patient_search = [kind |-> "empty", n |-> 0]
    /\ max_similar = 1
    /\ search_query \in {NoText, Query(1)}
    /\ note_type_filter \in FilterChoices
    /\ num_results \in ResultsRange
    /\ show_details = {}
    /\ out = Idle
    /\ calls = NoCalls
    /\ lastCall = NoCall
    /\ lastRun = NoRuns
    /\ ncalls = 0
    /\ sql = NoSql

NextSearch == ClickSearch \/ ClickViewDetails

SpecSearch == InitSearch /\ [][NextSearch]_vars

\* the page with a user who keeps clicking
LiveSearch == SpecSearch /\ WF_vars(ClickSearch) /\ WF_vars(ClickViewDetails)

\* C9: whenever the search of a click returns a non-empty result set, the
\* result list is rendered, whatever the summary step does.
C9_ResultsAlwaysShown ==
    (out.page = "search" /\ out.searched /\ out.raw # <<>>) =>
        out.shown = out.raw

\* the remote answered the search statement with zero hits
ZeroHits ==
    /\ out.sresp = "array"
    /\ RemoteHits(hits, IF note_type_filter # "All" THEN note_type_filter
                        ELSE NULL, num_results) = <<>>

\* the search of the run returned an empty result set
ReturnedEmpty ==
    out.searched /\ out.raw = <<>> /\ out.status = "no_results"

\* C10 as stated: zero hits or any malformed payload (no row, null or empty
\* results field, empty hit list, results field that is no hit array) gives
\* an empty result set and no failure.
C10_EmptyOnZeroOrMalformed ==
    (out.page = "search"
       /\ (ZeroHits \/ out.sresp \in {"norow", "null", "emptystr",
                                      "badjson", "scalar"})) =>
        ReturnedEmpty

\* C10 amended: no row, a null or empty results field or an empty hit list
\* gives an empty result set and no failure; a results field that is not a
\* hit array makes the call fail.
C10_EmptyOnZeroHits ==
    out.page = "search" =>
        /\ (ZeroHits \/ out.sresp \in {"norow", "null", "emptystr"}) =>
              ReturnedEmpty
        /\ out.sresp \in {"badjson", "scalar"} =>
              (out.status = "exception" /\ out.error = "search")

C10_Witness ==
    /\ out.page = "search"
    /\ out.sresp = "null"
    /\ ReturnedEmpty
    /\ hits # <<>>

\* answers that make the request or the parsing of its payload fail
FailingAnswers == {"raise", "badjson", "scalar"}

\* C11: an uncached invocation of search_clinical_notes issues exactly one
\* remote request; when the request or the parsing fails, the failure
\* reaches the caller, no second request is made, no result is returned
\* and the cache is left as it was.
C11_OneRequestNoRetry ==
    [][(out'.page = "search" /\ out'.sresp # NULL) =>
         /\ calls'.search = 1
         /\ out'.sresp \in FailingAnswers =>
              /\ out'.status = "exception"
              /\ out'.error = "search"
              /\ ~out'.searched
              /\ out'.raw = <<>>
              /\ out'.shown = <<>>
              /\ searchCache' = searchCache]_vars

C11_Witness ==
    /\ out.page = "search"
    /\ out.sresp = "badjson"
    /\ out.status = "exception"
    /\ calls.search = 1
    /\ searchCache = EmptyCache

\* ------------------------------------------------------- both pages
InitPages ==
    /\ hits = CacheRanking
    /\ now = 0
    /\ searchCache = EmptyCache
    /\ detailCache = EmptyCache
    /\ patient_search \in PatientInputs
    /\ max_similar \in SimilarRange
    /\ search_query \in {NoText, Query(1)}
    /\ note_type_filter \in FilterChoices
    /\ num_results \in ResultsRange
    /\ show_details = {}
    /\ out = Idle
    /\ calls = NoCalls
    /\ lastCall = NoCall
    /\ lastRun = NoRuns
    /\ ncalls = 0
    /\ sql = NoSql

NextPages == ClickSearch \/ ClickViewDetails \/ ClickFindSimilar

SpecPages == InitPages /\ [][NextPages]_vars

\* the last click was made with an empty query / an empty patient field
EmptyQuery == out.page = "search" /\ search_query = NoText
EmptyPatientField == out.page = "similar" /\ patient_search.kind = "empty"

\* the patient the text of the field names, 0 when it names none
NamedPatient(ps) == IF ps.kind \in {"digits", "MRN"} THEN ps.n ELSE 0

\* the last click was made with an identifier that names no patient
Unresolvable ==
    /\ out.page = "similar"
    /\ patient_search.kind # "empty"
    /\ NamedPatient(patient_search) \notin KnownPatients

Rejected == out.status \in {"enter_query", "enter_id", "invalid_id",
                            "not_found"}

InvalidAtSight ==
    /\ out.page = "similar"
    /\ \/ patient_search.kind = "other"
       \/ patient_search.kind = "digits" /\ patient_search.n = 0

SQ == "'"
DQ == "\""
Chars == {"a", SQ, DQ}
Strings == UNION {[1..n -> Chars] : n \in 0..MaxLen}

\* str.replace("'", "''")
RECURSIVE EscapeQuotes(_)
EscapeQuotes(str) ==
    IF str = <<>> THEN <<>>
    ELSE (IF Head(str) = SQ THEN <<SQ, SQ>> ELSE <<Head(str)>>)
         \o EscapeQuotes(Tail(str))

\* filter_clause of search_clinical_notes
FilterClause(f) ==
    IF f = <<>> THEN <<>>
    ELSE <<", \"filter\": {\"@eq\": {\"NOTE_TYPE\": ", DQ>> \o f
         \o <<DQ, "}}">>

\* the JSON text handed to SEARCH_PREVIEW
SearchPayload(q, f) ==
    <<"{", "\"query\": ", DQ>> \o q
    \o <<DQ, ", \"columns\": [...], \"limit\": n">> \o FilterClause(f)
    \o <<"}">>

\* sql of search_clinical_notes
SearchSql(q, f) ==
    LET payload == SearchPayload(q, f)
    IN [kind |-> "search",
        text |-> <<"SELECT PARSE_JSON(SNOWFLAKE.CORTEX.SEARCH_PREVIEW(svc, ",
                   SQ>> \o payload \o <<SQ, "))['results'] as results">>,
        open |-> 2, tail |-> 1, payload |-> payload,
        query |-> q, filter |-> f]

\* prompt of generate_ai_summary for one note
SummaryPrompt(q, note) ==
    <<"Based on ... answering the query: ", DQ>> \o q
    \o <<DQ, "Clinical Notes: Note 1: ">> \o note \o <<"Summary:">>

\* sql of generate_ai_summary
SummarySql(q, note) ==
    LET prompt == SummaryPrompt(q, note)
    IN [kind |-> "summary",
        text |-> <<"SELECT SNOWFLAKE.CORTEX.COMPLETE('llama3-70b', ", SQ>>
                 \o EscapeQuotes(prompt) \o <<SQ, ") as summary">>,
        open |-> 2, tail |-> 1, payload |-> prompt,
        query |-> q, filter |-> note]

\* search_clinical_notes builds its statement
BuildSearchSql ==
    /\ \E q \in Strings, f \in Strings : sql' = SearchSql(q, f)
    /\ UNCHANGED <<hits, now, searchCache, detailCache, page1, page2, out,
                   calls, history>>

\* generate_ai_summary builds its statement
BuildSummarySql ==
    /\ \E q \in Strings, note \in Strings : sql' = SummarySql(q, note)
    /\ UNCHANGED <<hits, now, searchCache, detailCache, page1, page2, out,
                   calls, history>>

InitEscape ==
    /\ hits = CacheRanking
    /\ now = 0
    /\ searchCache = EmptyCache
    /\ detailCache = EmptyCache
    /\ patient_search = [kind |-> "empty", n |-> 0]
    /\ max_similar = 1
    /\ search_query = NoText
    /\ note_type_filter = "All"
    /\ num_results = 1
    /\ show_details = {}
    /\ out = Idle
    /\ calls = NoCalls
    /\ lastCall = NoCall
    /\ lastRun = NoRuns
    /\ ncalls = 0
    /\ sql = NoSql

NextEscape == BuildSearchSql \/ BuildSummarySql

SpecEscape == InitEscape /\ [][NextEscape]_vars

\* how the SQL reader takes a string literal from the character after its
\* opening quote: a doubled quote is a quote, a single one closes it
RECURSIVE ReadSqlLiteral(_, _, _)
ReadSqlLiteral(text, i, acc) ==
    IF i > Len(text) THEN [content |-> acc, end |-> 0]
    ELSE IF text[i] # SQ THEN ReadSqlLiteral(text, i + 1, Append(acc, text[i]))
    ELSE IF i < Len(text) /\ text[i + 1] = SQ
    THEN ReadSqlLiteral(text, i + 2, Append(acc, SQ))
    ELSE [content |-> acc, end |-> i]

\* how the JSON reader takes a string from the character after its
\* opening quote
RECURSIVE ReadJsonString(_, _, _)
ReadJsonString(text, i, acc) ==
    IF i > Len(text) THEN [content |-> acc, end |-> 0]
    ELSE IF text[i] = DQ THEN [content |-> acc, end |-> i]
    ELSE ReadJsonString(text, i + 1, Append(acc, text[i]))

\* C13: whatever characters the caller supplies, the value stays inside
\* the literal it is embedded in: the SQL literal closes at its own closing
\* quote and holds the payload as built, and the JSON strings of the
\* search payload read back as the query text and the filter value.
C13_Escaped ==
    sql.kind # "none" =>
        LET lit == ReadSqlLiteral(sql.text, sql.open + 1, <<>>)
            q == ReadJsonString(sql.payload, 4, <<>>)
            f == ReadJsonString(sql.payload, 8 + Len(sql.query), <<>>)
        IN /\ lit.end = Len(sql.text) - sql.tail
           /\ lit.content = sql.payload
           /\ sql.kind = "search" =>
                /\ q.content = sql.query
                /\ q.end = 4 + Len(sql.query)
                /\ sql.filter # <<>> =>
                     /\ f.content = sql.filter
                     /\ f.end = Len(sql.payload) - 2

\* the escaping of the summary prompt alone
SummaryEscaped ==
    sql.kind = "summary" =>
        LET lit == ReadSqlLiteral(sql.text, sql.open + 1, <<>>)
        IN lit.end = Len(sql.text) - sql.tail /\ lit.content = sql.payload

\* text without quote characters is embedded intact
PlainText(str) == \A i \in 1..Len(str) : str[i] = "a"

PlainEscaped ==
    (sql.kind = "search" /\ PlainText(sql.query) /\ PlainText(sql.filter))
        => C13_Escaped

\* C14: on a non-empty result set generate_ai_summary issues exactly one
\* completion statement; its prompt holds the query and the first min(3, n)
\* results in arrival order, the i-th labelled "Note i" with its text cut
\* to at most 500 characters; the text the model answers is returned as is.
C14_PromptFromTopThree ==
    (out.page = "summary" /\ out.raw # <<>>) =>
        LET n == Len(out.raw)
            notes == out.prompt.notes
        IN /\ calls.complete = 1
           /\ out.prompt.query = search_query
           /\ Len(notes) = (IF n < 3 THEN n ELSE 3)
           /\ \A i \in 1..Len(notes) :
                /\ notes[i].label = i
                /\ notes[i].text.id = out.raw[i].NOTE_TEXT.id
                /\ notes[i].text.len =
                     (IF out.raw[i].NOTE_TEXT.len <= 500
                      THEN out.raw[i].NOTE_TEXT.len ELSE 500)
           /\ out.cresp = "text" =>
                (out.status = "return" /\ out.summary = ModelText)

C14_Witness ==
    /\ out.page = "summary"
    /\ Len(out.raw) > 3
    /\ Len(out.prompt.notes) = 3
    /\ out.raw[3].NOTE_TEXT.len > 500
    /\ out.prompt.notes[3].text.len = 500
    /\ out.prompt.query = Query(1)
    /\ calls.complete = 1
    /\ out.summary = ModelText

\* C15: on the Similar Patients page search_clinical_notes is called only
\* for an identifier resolved to a patient with a non-empty profile and a
\* note, and then with the first 500 characters of that patient's latest
\* note as the query, no note type filter and the limit 2 * max_similar.
C15_SimilarSearchArgs ==
    (out.page = "similar" /\ out.sargs # NoArgs) =>
        LET note == LatestNote(out.exclude)
        IN /\ patient_search.kind \in {"digits", "MRN", "mrn"}
           /\ out.exclude # 0
           /\ Profile(out.exclude).rows # <<>>
           /\ note # <<>>
           /\ calls.note = 1
           /\ out.sargs[1].id = note[1].NOTE_TEXT.id
           /\ out.sargs[1].len = (IF note[1].NOTE_TEXT.len <= 500
                                  THEN note[1].NOTE_TEXT.len ELSE 500)
           /\ out.sargs[2] = NULL
           /\ out.sargs[3] = 2 * max_similar

C15_Witness ==
    /\ out.page = "similar"
    /\ out.sargs # NoArgs
    /\ LatestNote(out.exclude)[1].NOTE_TEXT.len > 500
    /\ out.sargs[1].len = 500
    /\ out.sargs[3] = 2 * max_similar
    /\ out.status = "results"

\* C16: after a search has drawn its results, a click on "View Details"
\* of a row leads to that row's show_details flag being set and the
\* results, with the row's details, being drawn.
C16_ViewDetailsShows ==
    \A i \in 0..(MaxResults - 1) :
        (out.page = "search" /\ out.clicked = i)
            ~> (i \in show_details /\ out.status = "results"
                /\ i < Len(out.shown))

\* the flags are never set at all
NoFlagEverSet == show_details = {}

\* C17: the number in the "Top N Similar Patients" heading equals the
\* number of similar-patient entries drawn below it.
C17_HeadingCountsEntries ==
    (out.page = "similar" /\ out.status = "results") =>
        out.heading = Len(out.shown)

\* the heading counts notes where the list counts patients
HeadingCountsNotes ==
    (out.page = "similar" /\ out.status = "results") =>
        /\ out.heading = Min(max_similar,
                             Len(FilterOut(out.raw, out.exclude)))
        /\ Len(out.shown) <= out.heading

====
